---- MODULE Spec2Model ----
(***************************************************************************)
(* A model of libzec-go: the account orchestrator (SendTransaction with    *)
(* its funding planner fund / fundAll, fee debit, signing, publish and     *)
(* post-condition polling) and the two-phase transaction builder (Build,   *)
(* InjectSigs, Submit).                                                    *)
(*                                                                         *)
(* Byte strings (scripts, hashes, keys) are modelled as TLA+ strings; a    *)
(* transaction is a record of its inputs and outputs.  The remote client   *)
(* is the environment: the UTXO list it serves is chosen in Init, its      *)
(* failures and the results of the caller's callbacks are nondeterministic.*)
(***************************************************************************)
EXTENDS Integers, Sequences, FiniteSets, TLC

(***************************************************************************)
(* Program constants.                                                      *)
(***************************************************************************)
MaxZCashFee == 10000
MinOutputValue == 600
PollLimit == 60
BuilderFee == 10000
BuilderDust == 600

(***************************************************************************)
(* Bounds of the model.                                                    *)
(***************************************************************************)
MaxUtxos == 2
MaxOutputs == 1
MaxPublish == 2
MaxSigs == 3

Nil == "nil"
EmptyBytes == ""

(***************************************************************************)
(* The UTXOs the client may serve, and the output values a caller's        *)
(* pre-condition may declare.                                              *)
(***************************************************************************)
UtxoPool ==
    { [txHash |-> "h1", vout |-> 0, amount |-> 20000, scriptPubKey |-> "spkA"],
      [txHash |-> "h1", vout |-> 1, amount |-> 10300, scriptPubKey |-> "spkA"],
      [txHash |-> "h2", vout |-> 0, amount |-> 30000, scriptPubKey |-> "spkB"] }

OutputValues == {599, 600, 20000}

RECURSIVE SeqsUpTo(_, _)
SeqsUpTo(S, n) ==
    IF n = 0 THEN {<<>>}
    ELSE LET shorter == SeqsUpTo(S, n - 1)
         IN shorter \cup {Append(s, x) : s \in {q \in shorter : Len(q) = n - 1}, x \in S}

RECURSIVE SumSeq(_)
SumSeq(s) == IF s = <<>> THEN 0 ELSE Head(s) + SumSeq(Tail(s))

Amounts(us) == [k \in 1..Len(us) |-> us[k].amount]
Values(outs) == [k \in 1..Len(outs) |-> outs[k].value]

VARIABLES
    utxos,              \* the UTXO list the client serves for the source address
    call,               \* the arguments of the running SendTransaction call
    pc,                 \* position of the call
    tx,                 \* the tx under construction
    signIdx,            \* index of the next input to sign (1-based)
    pollI,              \* the poll loop's counter i
    cancelled,          \* ctx.Done() is closed
    ret,                \* the call's return values
    nPublish,           \* calls of PublishTransaction that succeeded, up to MaxPublish
    published,          \* the transaction last handed to PublishTransaction
    nFetch,             \* calls of GetUTXOs made by the call
    nPostEval,          \* evaluations of postCond in the call, up to PollLimit + 1
    cancelInPoll,       \* the cancellation fired while the call was polling
    evalsAfterCancel,   \* postCond evaluations after such a cancellation, up to 2
    pubAfterCancel,     \* a publish happened after such a cancellation
    pubErr,             \* what the last PublishTransaction returned (none: not invoked)
    peer,               \* a second call running concurrently on the same account
    bpc,                \* position of the builder's client: new, built, failed
    bArgs,              \* the arguments of the last Build
    bTx,                \* the transaction Build returned
    bErr,               \* the error Build returned
    bSigs,              \* the number of signatures of the last InjectSigs (-1: none)
    bSigErr,            \* what the last InjectSigs returned
    bBefore,            \* the inputs as they were before the last InjectSigs
    bSubmit,            \* what the last Submit returned (none: not called)
    bPublish,           \* transactions Submit handed to PublishTransaction
    pure                \* the last call of a function without state: its name, arguments, result

acctVars == <<utxos, call, pc, tx, signIdx, pollI, cancelled, ret, nPublish,
              published, nFetch, nPostEval, cancelInPoll, evalsAfterCancel,
              pubAfterCancel, pubErr>>

bldVars == <<bpc, bArgs, bTx, bErr, bSigs, bSigErr, bBefore, bSubmit, bPublish>>

peerVars == <<peer>>

pureVars == <<pure>>

vars == <<acctVars, bldVars, peerVars, pureVars>>

(***************************************************************************)
(* Addresses and scripts.                                                  *)
(***************************************************************************)
MyAddress == "addr:me"
ScriptAddress(contract) == "addr:p2sh"
PayToAddrScript(addr) == IF addr = MyAddress THEN "p2pkh:me"
                         ELSE IF addr = "addr:p2sh" THEN "p2sh:contract"
                         ELSE "p2pkh:to"

SourceAddress(contract) == IF contract = Nil THEN MyAddress ELSE ScriptAddress(contract)

(***************************************************************************)
(* newTx: an empty version-4 transaction.                                  *)
(***************************************************************************)
newTx == [txIn |-> <<>>, txOut |-> <<>>, receiveValues |-> <<>>,
          scriptPublicKey |-> EmptyBytes]

NewTxIn(hash, vout) ==
    [hash |-> hash, vout |-> vout, signatureScript |-> <<>>, sequence |-> "final"]

NewTxOut(value, script) == [value |-> value, pkScript |-> script]

NoRet == [txid |-> "", fee |-> 0, err |-> "running", required |-> 0, current |-> 0]
ErrRet(e) == [txid |-> "", fee |-> 0, err |-> e, required |-> 0, current |-> 0]

(***************************************************************************)
(* tx.fund and tx.fundAll: the funding planner of the orchestrator.        *)
(***************************************************************************)
HasDustOutput(outs) == \E k \in 1..Len(outs) : outs[k].value < MinOutputValue

Balance(us) == SumSeq(Amounts(us))

\* One pass of the selection loop of fund, from the k-th UTXO on: a UTXO whose
\* scriptPubKey differs from the first one's is skipped; the loop breaks as
\* soon as value <= -MaxZCashFee.
RECURSIVE fundLoop(_, _, _, _)
fundLoop(t, value, us, k) ==
    IF k > Len(us) THEN [tx |-> t, value |-> value]
    ELSE LET j == us[k]
             unset == t.scriptPublicKey = EmptyBytes
         IN IF ~unset /\ t.scriptPublicKey # j.scriptPubKey
            THEN fundLoop(t, value, us, k + 1)
            ELSE LET t1 == [t EXCEPT !.scriptPublicKey = IF unset THEN j.scriptPubKey ELSE @,
                                     !.receiveValues = Append(@, j.amount),
                                     !.txIn = Append(@, NewTxIn(j.txHash, j.vout))]
                     v1 == value - j.amount
                 IN IF v1 <= -MaxZCashFee
                    THEN [tx |-> t1, value |-> v1]
                    ELSE fundLoop(t1, v1, us, k + 1)

\* The loop of fundAll: every UTXO whose scriptPubKey is the first one's
\* becomes an input.
RECURSIVE fundAllLoop(_, _, _)
fundAllLoop(t, us, k) ==
    IF k > Len(us) THEN t
    ELSE LET j == us[k]
             unset == t.scriptPublicKey = EmptyBytes
         IN IF ~unset /\ t.scriptPublicKey # j.scriptPubKey
            THEN fundAllLoop(t, us, k + 1)
            ELSE fundAllLoop([t EXCEPT !.scriptPublicKey = IF unset THEN j.scriptPubKey ELSE @,
                                       !.receiveValues = Append(@, j.amount),
                                       !.txIn = Append(@, NewTxIn(j.txHash, j.vout))],
                             us, k + 1)

\* fund, with the amount reserved in the balance check and the amount cut from
\* the change output as parameters (fund reserves MaxZCashFee and cuts nothing:
\* the fee is debited later, by SendTransaction).
fundWith(t, addr, us, reserve, cut) ==
    LET value == SumSeq(Values(t.txOut))
        balance == Balance(us)
        sel == fundLoop(t, value, us, 1)
    IN IF HasDustOutput(t.txOut)
       THEN [err |-> "ErrDustOutput", tx |-> t, required |-> 0, current |-> 0]
       ELSE IF value + reserve > balance
       THEN [err |-> "ErrInsufficientBalance", tx |-> t,
             required |-> value + reserve, current |-> balance]
       ELSE IF sel.value <= -MaxZCashFee
       THEN [err |-> "", required |-> 0, current |-> 0,
             tx |-> [sel.tx EXCEPT !.txOut =
                        Append(@, NewTxOut(-sel.value - cut, PayToAddrScript(addr)))]]
       ELSE [err |-> "ErrMismatchedPubKeys", tx |-> sel.tx, required |-> 0, current |-> 0]

\* fund with a selection that does not stop at the covering UTXO
fundSelectsAllMatching(t, addr, us) ==
    LET value == SumSeq(Values(t.txOut))
        balance == Balance(us)
        all == fundAllLoop(t, us, 1)
        rest == value - SumSeq(all.receiveValues)
    IN IF HasDustOutput(t.txOut)
       THEN [err |-> "ErrDustOutput", tx |-> t, required |-> 0, current |-> 0]
       ELSE IF value + MaxZCashFee > balance
       THEN [err |-> "ErrInsufficientBalance", tx |-> t,
             required |-> value + MaxZCashFee, current |-> balance]
       ELSE IF rest <= -MaxZCashFee
       THEN [err |-> "", required |-> 0, current |-> 0,
             tx |-> [all EXCEPT !.txOut =
                        Append(@, NewTxOut(-rest, PayToAddrScript(addr)))]]
       ELSE [err |-> "ErrMismatchedPubKeys", tx |-> all, required |-> 0, current |-> 0]

fundChangeNetOfFee(t, addr, us) == fundWith(t, addr, us, MaxZCashFee, MaxZCashFee)

fundBalanceWithoutFee(t, addr, us) == fundWith(t, addr, us, 0, 0)

fund(t, addr, us) == fundWith(t, addr, us, MaxZCashFee, 0)

fundAllUnfiltered(t, addr, us) ==
    [err |-> "", required |-> 0, current |-> 0,
     tx |-> [t EXCEPT !.scriptPublicKey = IF us = <<>> THEN @ ELSE us[1].scriptPubKey,
                      !.receiveValues = Amounts(us),
                      !.txIn = [k \in 1..Len(us) |-> NewTxIn(us[k].txHash, us[k].vout)]]]

fundAll(t, addr, us) ==
    [err |-> "", tx |-> fundAllLoop(t, us, 1), required |-> 0, current |-> 0]

(***************************************************************************)
(* The ZIP-243 digest of input k: modelled by the fields the preimage      *)
(* commits to, so that two digests are equal exactly when those agree.     *)
(***************************************************************************)
SigHash(t, k, subScript, amt) ==
    [prevOuts  |-> [n \in 1..Len(t.txIn) |-> <<t.txIn[n].hash, t.txIn[n].vout>>],
     sequences |-> [n \in 1..Len(t.txIn) |-> t.txIn[n].sequence],
     outputs   |-> t.txOut,
     outPoint  |-> <<t.txIn[k].hash, t.txIn[k].vout>>,
     subScript |-> subScript,
     amount    |-> amt,
     sequence  |-> t.txIn[k].sequence]

\* The body of the loop of tx.sign for input k.
signInput(t, k, c) ==
    LET t0 == IF c.updateTxIn THEN [t EXCEPT !.txIn[k].sequence = "updated"] ELSE t
        subScript == IF c.contract = Nil THEN t0.scriptPublicKey ELSE c.contract
        sig == [sig |-> SigHash(t0, k, subScript, t0.receiveValues[k]),
                hashType |-> "SigHashAll"]
        pushes == <<sig, [pubKey |-> "serializedPublicKey"]>>
                  \o (IF c.sigData THEN <<[data |-> "secret"]>> ELSE <<>>)
                  \o (IF c.contract # Nil THEN <<[data |-> c.contract]>> ELSE <<>>)
    IN [t0 EXCEPT !.txIn[k].signatureScript = pushes]

(***************************************************************************)
(* SendTransaction.  The arguments of a call: the contract (or nil), the   *)
(* callbacks updateTxIn, preCond, f (sigData) and postCond, and sendAll.   *)
(* A preCond is given by the outputs it adds to the transaction and the    *)
(* value it returns; an updateTxIn by whether it is there (it then sets    *)
(* the input's sequence); f by whether it is there (it then pushes one     *)
(* datum).  What postCond returns is chosen at each evaluation.            *)
(***************************************************************************)
DeclaredOutputs == {NewTxOut(v, "p2pkh:to") : v \in OutputValues}

PreConds ==
    {[present |-> FALSE, result |-> TRUE, outs |-> <<>>]}
    \cup {[present |-> TRUE, result |-> r, outs |-> o] :
            r \in BOOLEAN, o \in SeqsUpTo(DeclaredOutputs, MaxOutputs)}

Calls ==
    [contract : {Nil, "contract"}, sendAll : BOOLEAN, updateTxIn : BOOLEAN,
     preCond : PreConds, sigData : BOOLEAN, hasPostCond : BOOLEAN]

NoCall == [contract |-> Nil, sendAll |-> FALSE, updateTxIn |-> FALSE,
           preCond |-> [present |-> FALSE, result |-> TRUE, outs |-> <<>>],
           sigData |-> FALSE, hasPostCond |-> FALSE]

\* Transfer is SendTransaction without contract, updateTxIn, f and postCond; its
\* preCond adds one output to the recipient.
TransferCall == [NoCall EXCEPT !.preCond.present = TRUE]

Return(r) == /\ pc' = "done"
             /\ ret' = r

AcctInit ==
    /\ utxos \in SeqsUpTo(UtxoPool, MaxUtxos)
    /\ call = NoCall
    /\ pc = "idle"
    /\ tx = newTx
    /\ signIdx = 1
    /\ pollI = 0
    /\ cancelled = FALSE
    /\ ret = NoRet
    /\ nPublish = 0
    /\ published = newTx
    /\ nFetch = 0
    /\ nPostEval = 0
    /\ cancelInPoll = FALSE
    /\ evalsAfterCancel = 0
    /\ pubAfterCancel = FALSE
    /\ pubErr = "none"

\* The caller invokes SendTransaction.
Call ==
    /\ pc = "idle"
    /\ \E c \in Calls : call' = c
    /\ pc' = "preCond"
    /\ UNCHANGED <<utxos, tx, signIdx, pollI, cancelled, ret, nPublish, published,
                   nFetch, nPostEval, cancelInPoll, evalsAfterCancel, pubAfterCancel, pubErr, bldVars, peerVars, pureVars>>

\* The caller invokes Transfer(to, value, sendAll): with sendAll the value is
\* replaced by the balance of the account's address, and SendTransaction is
\* called with a preCond that adds the output.
TransferWith(amount) ==
    /\ pc = "idle"
    /\ \E sendAll \in BOOLEAN, value \in OutputValues :
          call' = [TransferCall EXCEPT
                     !.sendAll = sendAll,
                     !.preCond.outs = <<NewTxOut(IF sendAll THEN amount ELSE value,
                                                 "p2pkh:to")>>]
    /\ pc' = "preCond"
    /\ UNCHANGED <<utxos, tx, signIdx, pollI, cancelled, ret, nPublish, published,
                   nFetch, nPostEval, cancelInPoll, evalsAfterCancel, pubAfterCancel, pubErr, bldVars, peerVars, pureVars>>

Transfer == TransferWith(Balance(utxos))

\* newTx and the pre-condition: preCond adds its outputs to the transaction and
\* returns its verdict.
PreCondStepWith(verdict) ==
    /\ pc = "preCond"
    /\ IF call.preCond.present
       THEN /\ tx' = [newTx EXCEPT !.txOut = call.preCond.outs]
            /\ IF verdict
               THEN pc' = "fund" /\ UNCHANGED ret
               ELSE Return(ErrRet("ErrPreConditionCheckFailed"))
       ELSE /\ tx' = newTx
            /\ pc' = "fund"
            /\ UNCHANGED ret
    /\ UNCHANGED <<utxos, call, signIdx, pollI, cancelled, nPublish, published,
                   nFetch, nPostEval, cancelInPoll, evalsAfterCancel, pubAfterCancel, pubErr, bldVars, peerVars, pureVars>>

PreCondStepIgnoringVerdict == PreCondStepWith(TRUE)

PreCondStep == PreCondStepWith(call.preCond.result)

\* The number of GetUTXOs requests a funding makes: fund asks for the balance
\* and then for the UTXOs, unless it fails before; fundAll asks once.
Fetches(c, r) ==
    IF c.sendAll THEN 1
    ELSE IF r.err = "ErrDustOutput" THEN 0
    ELSE IF r.err = "ErrInsufficientBalance" THEN 1
    ELSE 2

\* The source address and the funding of the transaction.
FundStep ==
    /\ pc = "fund"
    /\ LET addr == SourceAddress(call.contract)
           r == IF call.sendAll THEN fundAll(tx, addr, utxos) ELSE fund(tx, addr, utxos)
       IN \/ /\ tx' = r.tx
             /\ nFetch' = nFetch + Fetches(call, r)
             /\ IF r.err = ""
                THEN pc' = "debit" /\ UNCHANGED ret
                ELSE Return([ErrRet(r.err) EXCEPT !.required = r.required,
                                                  !.current = r.current])
          \/ \* the client fails the first request
             /\ call.sendAll \/ ~HasDustOutput(tx.txOut)
             /\ nFetch' = nFetch + 1
             /\ Return(ErrRet("client error"))
             /\ UNCHANGED tx
    /\ UNCHANGED <<utxos, call, signIdx, pollI, cancelled, nPublish, published,
                   nPostEval, cancelInPoll, evalsAfterCancel, pubAfterCancel, pubErr, bldVars, peerVars, pureVars>>

\* The fee is taken from the output at index k, which is the last one; with no
\* output the index is out of range and the call panics.
DebitFeeAt(k) ==
    /\ pc = "debit"
    /\ IF Len(tx.txOut) = 0
       THEN /\ Return(ErrRet("panic: index out of range"))
            /\ UNCHANGED <<tx, signIdx>>
       ELSE /\ tx' = [tx EXCEPT !.txOut[k].value = @ - MaxZCashFee]
            /\ signIdx' = 1
            /\ pc' = "sign"
            /\ UNCHANGED ret
    /\ UNCHANGED <<utxos, call, pollI, cancelled, nPublish, published, nFetch,
                   nPostEval, cancelInPoll, evalsAfterCancel, pubAfterCancel, pubErr, bldVars, peerVars, pureVars>>

DebitFeeFromFirstOutput == DebitFeeAt(1)

DebitFee == DebitFeeAt(Len(tx.txOut))

\* tx.sign: one input per step, in ascending order, up to input last.  The
\* serialization of the public key may fail before the loop, and the signing
\* of an input (or the assembly of its script) may fail after updateTxIn ran
\* on it: the call returns the error.
SignStepUpTo(last) ==
    /\ pc = "sign"
    /\ \/ IF signIdx <= last
          THEN /\ tx' = signInput(tx, signIdx, call)
               /\ signIdx' = signIdx + 1
               /\ UNCHANGED <<pc, ret>>
          ELSE /\ pc' = "loop"
               /\ UNCHANGED <<tx, signIdx, ret>>
       \/ /\ signIdx = 1
          /\ Return(ErrRet("sign error"))
          /\ UNCHANGED <<tx, signIdx>>
       \/ /\ signIdx <= last
          /\ tx' = IF call.updateTxIn
                   THEN [tx EXCEPT !.txIn[signIdx].sequence = "updated"]
                   ELSE tx
          /\ Return(ErrRet("sign error"))
          /\ UNCHANGED signIdx
    /\ UNCHANGED <<utxos, call, pollI, cancelled, nPublish, published, nFetch,
                   nPostEval, cancelInPoll, evalsAfterCancel, pubAfterCancel, pubErr, bldVars, peerVars, pureVars>>

\* tx.sign returning after the first input
SignStepFirstInputOnly == SignStepUpTo(IF Len(tx.txIn) > 1 THEN 1 ELSE Len(tx.txIn))

SignStep == SignStepUpTo(Len(tx.txIn))

\* What the network accepts when a transaction is published: it has an input,
\* no output is negative and the outputs do not exceed the inputs.  The client
\* may fail for other reasons as well.
Acceptable(t) ==
    /\ Len(t.txIn) > 0
    /\ \A k \in 1..Len(t.txOut) : t.txOut[k].value >= 0
    /\ SumSeq(t.receiveValues) >= SumSeq(Values(t.txOut))

\* The head of the loop: the select on ctx.Done() and, by default, tx.submit.
\* A publish error is fatal: the call returns it.
SubmitStepWith(done, fatal) ==
    /\ pc = "loop"
    /\ IF done
       THEN /\ Return(ErrRet("ErrPostConditionCheckFailed"))
            /\ UNCHANGED <<pollI, nPublish, published, pubAfterCancel, pubErr>>
       ELSE \/ \* PublishTransaction succeeds
               /\ Acceptable(tx)
               /\ nPublish' = IF nPublish < MaxPublish THEN nPublish + 1 ELSE nPublish
               /\ published' = tx
               /\ pubErr' = ""
               /\ pubAfterCancel' = (pubAfterCancel \/ cancelInPoll)
               /\ pollI' = 0
               /\ pc' = "poll"
               /\ UNCHANGED ret
            \/ \* PublishTransaction fails
               /\ pubErr' = "publish error"
               /\ IF fatal
                  THEN /\ Return(ErrRet("publish error"))
                       /\ UNCHANGED pollI
                  ELSE /\ pollI' = 0
                       /\ pc' = "poll"
                       /\ UNCHANGED ret
               /\ UNCHANGED <<nPublish, published, pubAfterCancel>>
    /\ UNCHANGED <<utxos, call, tx, signIdx, cancelled, nFetch, nPostEval,
                   cancelInPoll, evalsAfterCancel, bldVars, peerVars, pureVars>>

SubmitStepWithoutSelect == SubmitStepWith(FALSE, TRUE)

SubmitStepSelectAfterPublish == SubmitStepWith(cancelled /\ nPublish > 0, TRUE)

SubmitStepPollsAfterError == SubmitStepWith(cancelled, FALSE)

SubmitStep == SubmitStepWith(cancelled, TRUE)

\* One iteration of the poll loop: postCond is evaluated (unless nil); on false
\* the call sleeps and i is incremented; after PollLimit iterations control is
\* back at the head of the outer loop.
PollStepWith(limit) ==
    /\ pc = "poll"
    /\ pollI < limit
    /\ IF ~call.hasPostCond
       THEN /\ Return([txid |-> "txid", fee |-> MaxZCashFee, err |-> "",
                       required |-> 0, current |-> 0])
            /\ UNCHANGED <<pollI, nPostEval, evalsAfterCancel>>
       ELSE /\ nPostEval' = IF nPostEval <= PollLimit THEN nPostEval + 1 ELSE nPostEval
            /\ evalsAfterCancel' = IF cancelInPoll /\ evalsAfterCancel < 2
                                   THEN evalsAfterCancel + 1 ELSE evalsAfterCancel
            /\ \/ /\ Return([txid |-> "txid", fee |-> MaxZCashFee, err |-> "",
                             required |-> 0, current |-> 0])
                  /\ UNCHANGED pollI
               \/ /\ pollI' = pollI + 1
                  /\ pc' = IF pollI + 1 = limit THEN "loop" ELSE "poll"
                  /\ UNCHANGED ret
    /\ UNCHANGED <<utxos, call, tx, signIdx, cancelled, nPublish, published, nFetch,
                   cancelInPoll, pubAfterCancel, pubErr, bldVars, peerVars, pureVars>>

PollStepSingleEvaluation == PollStepWith(1)

PollStep == PollStepWith(PollLimit)

\* The caller cancels the context (or its deadline passes).
Cancel ==
    /\ pc \notin {"idle", "done"}
    /\ ~cancelled
    /\ cancelled' = TRUE
    /\ cancelInPoll' = (pc = "poll" /\ call.hasPostCond)
    /\ UNCHANGED <<utxos, call, pc, tx, signIdx, pollI, ret, nPublish, published,
                   nFetch, nPostEval, evalsAfterCancel, pubAfterCancel, pubErr, bldVars, peerVars, pureVars>>

(***************************************************************************)
(* The transaction builder: Build, InjectSigs, Submit (the variant whose   *)
(* caller supplies the UTXO lists).                                        *)
(***************************************************************************)
ContractUtxoPool ==
    { [txHash |-> "h3", vout |-> 0, amount |-> 50000, scriptPubKey |-> "spkC"],
      [txHash |-> "h1", vout |-> 0, amount |-> 20000, scriptPubKey |-> "spkA"] }

BuildValues == {10599, 10600, 20000, 30000}

BuildArgs ==
    [value : BuildValues, contract : {Nil, "contract"},
     mwUTXOs : SeqsUpTo(UtxoPool, MaxUtxos),
     scriptUTXOs : SeqsUpTo(ContractUtxoPool, MaxUtxos)]

NoArgs == [value |-> 0, contract |-> Nil, mwUTXOs |-> <<>>, scriptUTXOs |-> <<>>]

newMsgTx == [txIn |-> <<>>, txOut |-> <<>>]

NoTx == [sent |-> 0, msgTx |-> newMsgTx, hashes |-> <<>>, contract |-> Nil,
         mwIns |-> 0, recvVals |-> <<>>]

\* fundZecTx: every UTXO whose scriptPubKey equals the first one's becomes an
\* input; receiveValues has one slot per UTXO of the list, zero for a skipped one.
RECURSIVE fundZecLoop(_, _, _, _, _)
fundZecLoop(m, rv, spk, us, k) ==
    IF k > Len(us) THEN [msgTx |-> m, receiveValues |-> rv, scriptPubKey |-> spk]
    ELSE LET u == us[k]
             unset == spk = EmptyBytes
         IN IF ~unset /\ spk # u.scriptPubKey
            THEN fundZecLoop(m, rv, spk, us, k + 1)
            ELSE fundZecLoop([m EXCEPT !.txIn = Append(@, NewTxIn(u.txHash, u.vout))],
                             [rv EXCEPT ![k] = u.amount],
                             IF unset THEN u.scriptPubKey ELSE spk, us, k + 1)

fundZecTx(script, m, us) ==
    LET r == fundZecLoop(m, [k \in 1..Len(us) |-> 0], EmptyBytes, us, 1)
    IN [msgTx |-> r.msgTx, receiveValues |-> r.receiveValues,
        script |-> IF script # Nil THEN script ELSE r.scriptPubKey]

\* The two loops of Build that compute the digests: index i uses the pubkey
\* script below mwN and the contract from there on.  recvVals[i] is read before
\* CalcSignatureHash checks the index.
\* the loops with the amounts taken from the list in reverse
RECURSIVE hashLoopReversedAmounts(_, _, _, _, _, _, _, _)
hashLoopReversedAmounts(m, rv, mwN, total, pubKeyScript, contract, i, acc) ==
    IF i > total THEN [err |-> "", hashes |-> acc]
    ELSE IF i > Len(rv) THEN [err |-> "panic: index out of range", hashes |-> acc]
    ELSE IF i > Len(m.txIn) THEN [err |-> "ErrBadIndex", hashes |-> acc]
    ELSE hashLoopReversedAmounts(m, rv, mwN, total, pubKeyScript, contract, i + 1,
                  Append(acc, SigHash(m, i, IF i <= mwN THEN pubKeyScript ELSE contract,
                                      rv[Len(rv) + 1 - i])))

RECURSIVE hashLoop(_, _, _, _, _, _, _, _)
hashLoop(m, rv, mwN, total, pubKeyScript, contract, i, acc) ==
    IF i > total THEN [err |-> "", hashes |-> acc]
    ELSE IF i > Len(rv) THEN [err |-> "panic: index out of range", hashes |-> acc]
    ELSE IF i > Len(m.txIn) THEN [err |-> "ErrBadIndex", hashes |-> acc]
    ELSE hashLoop(m, rv, mwN, total, pubKeyScript, contract, i + 1,
                  Append(acc, SigHash(m, i, IF i <= mwN THEN pubKeyScript ELSE contract,
                                      rv[i])))

BuildFail(e) == [err |-> e, tx |-> NoTx]

\* Build, with the amount held back from the change output and the amount taken
\* out of the requested value as parameters (Build holds back the fee and takes
\* the fee out of the value).
BuildWith(a, held, cut) ==
    LET value == a.value - cut
        f1 == fundZecTx(Nil, newMsgTx, a.mwUTXOs)
        f2 == fundZecTx(a.contract, f1.msgTx, a.scriptUTXOs)
        withContract == a.contract # Nil
        funded == IF withContract THEN f2.msgTx ELSE f1.msgTx
        recvVals == IF withContract THEN f1.receiveValues \o f2.receiveValues
                    ELSE f1.receiveValues
        amt == SumSeq(recvVals)
        sent0 == IF withContract THEN SumSeq(f2.receiveValues) - BuilderFee ELSE 0
        out1 == IF value > 0
                THEN [funded EXCEPT !.txOut = Append(@, NewTxOut(value, "p2pkh:to"))]
                ELSE funded
        out2 == IF amt - value > BuilderFee + BuilderDust
                THEN [out1 EXCEPT !.txOut =
                        Append(@, NewTxOut(amt - value - held, "p2pkh:me"))]
                ELSE out1
        h == hashLoop(out2, recvVals, Len(a.mwUTXOs),
                      Len(a.mwUTXOs) + Len(a.scriptUTXOs), f1.script, a.contract, 1, <<>>)
    IN IF a.value < BuilderFee + BuilderDust THEN BuildFail("ErrAmountTooSmall")
       ELSE IF amt < value + BuilderFee THEN BuildFail("ErrInsufficientBalance")
       ELSE IF h.err # "" THEN BuildFail(h.err)
       ELSE [err |-> "",
             tx |-> [sent |-> IF value > 0 THEN value ELSE sent0, msgTx |-> out2,
                     hashes |-> h.hashes, contract |-> a.contract,
                     mwIns |-> Len(a.mwUTXOs), recvVals |-> recvVals]]

BuildChangeKeepsFee(a) == BuildWith(a, 0, BuilderFee)

BuildPaysFullValue(a) == BuildWith(a, BuilderFee, 0)

Build(a) == BuildWith(a, BuilderFee, BuilderFee)

\* InjectSigs: the signature script of input i is set for every signature
\* handed in; a signature beyond the last input indexes TxIn out of range.
injectedScriptWith(t, withContract) ==
    <<[sig |-> "sig", hashType |-> "SigHashAll"], [pubKey |-> "serializedPublicKey"]>>
    \o (IF withContract THEN <<[data |-> t.contract]>> ELSE <<>>)

injectedScriptContractEverywhere(t, i) == injectedScriptWith(t, t.contract # Nil)

injectedScript(t, i) == injectedScriptWith(t, i > t.mwIns /\ t.contract # Nil)

InjectSigs(t, n) ==
    LET signed == IF n < Len(t.msgTx.txIn) THEN n ELSE Len(t.msgTx.txIn)
    IN [err |-> IF n > Len(t.msgTx.txIn) THEN "panic: index out of range" ELSE "",
        tx |-> [t EXCEPT !.msgTx.txIn =
                   [i \in 1..Len(t.msgTx.txIn) |->
                       IF i <= signed
                       THEN [t.msgTx.txIn[i] EXCEPT !.signatureScript = injectedScript(t, i)]
                       ELSE t.msgTx.txIn[i]]]]

BuilderIdle ==
    /\ bpc = "new"
    /\ bArgs = NoArgs
    /\ bTx = NoTx
    /\ bErr = ""
    /\ bSigs = -1
    /\ bSigErr = ""
    /\ bBefore = <<>>
    /\ bSubmit = "none"
    /\ bPublish = <<>>

NoPeer == [pc |-> "idle", tx |-> newTx, published |-> newTx]

PeerIdle == peer = NoPeer

\* no function without state has been called
NoPure == [op |-> "none"]

PureIdle == pure = NoPure

AcctIdle ==
    /\ utxos = <<>>
    /\ call = NoCall
    /\ pc = "idle"
    /\ tx = newTx
    /\ signIdx = 1
    /\ pollI = 0
    /\ cancelled = FALSE
    /\ ret = NoRet
    /\ nPublish = 0
    /\ published = newTx
    /\ nFetch = 0
    /\ nPostEval = 0
    /\ cancelInPoll = FALSE
    /\ evalsAfterCancel = 0
    /\ pubAfterCancel = FALSE
    /\ pubErr = "none"

BuilderInit == AcctIdle /\ BuilderIdle /\ PeerIdle /\ PureIdle

BuildCall ==
    /\ bpc = "new"
    /\ \E a \in BuildArgs :
          LET r == Build(a)
          IN /\ bArgs' = a
             /\ bErr' = r.err
             /\ bTx' = r.tx
             /\ bpc' = IF r.err = "" THEN "built" ELSE "failed"
    /\ UNCHANGED <<bSigs, bSigErr, bBefore, bSubmit, bPublish, acctVars, peerVars, pureVars>>

\* The caller hands n signatures to InjectSigs; a panic ends the program.
InjectSigsCall ==
    /\ bpc = "built"
    /\ \E n \in 0..MaxSigs :
          LET r == InjectSigs(bTx, n)
          IN /\ bSigs' = n
             /\ bSigErr' = r.err
             /\ bBefore' = bTx.msgTx.txIn
             /\ bTx' = r.tx
             /\ bpc' = IF r.err = "" THEN "built" ELSE "crashed"
    /\ UNCHANGED <<bArgs, bErr, bSubmit, bPublish, acctVars, peerVars, pureVars>>

\* Submit encodes the transaction and hands it to the client, whose
\* PublishTransaction succeeds or fails.
SubmitCall ==
    /\ bpc = "built"
    /\ Len(bPublish) < MaxPublish
    /\ bPublish' = Append(bPublish, bTx.msgTx)
    /\ bSubmit' \in {"ok", "publish error"}
    /\ UNCHANGED <<bpc, bArgs, bTx, bErr, bSigs, bSigErr, bBefore, acctVars, peerVars, pureVars>>

(***************************************************************************)
(* The variant of the builder that fetches the UTXOs itself: Build takes    *)
(* the numbers of master and contract inputs and asks the client for that   *)
(* many UTXOs of each address.  InjectSigs and Submit are as above.         *)
(***************************************************************************)
PullValues == {600, 10599, 10600, 20000}

\* mwUTXOs and scriptUTXOs are here what the client holds for the two addresses.
PullArgs ==
    [value : PullValues, contract : {Nil, "contract"},
     mwIns : 0..MaxUtxos, scriptIns : 0..MaxUtxos,
     mwUTXOs : SeqsUpTo(UtxoPool, MaxUtxos),
     scriptUTXOs : SeqsUpTo(ContractUtxoPool, MaxUtxos)]

\* GetUTXOs with a limit of n: the client answers with at most n UTXOs.
GetUTXOs(held, n) == SubSeq(held, 1, IF n < Len(held) THEN n ELSE Len(held))

\* fundZecTx of this variant: fails unless the client has n UTXOs.
fundZecTxPull(script, m, held, n) ==
    LET us == GetUTXOs(held, n)
    IN IF Len(us) < n
       THEN [err |-> "ErrInsufficientUtxos", msgTx |-> m,
             receiveValues |-> [k \in 1..n |-> 0], script |-> Nil]
       ELSE [err |-> ""] @@ fundZecTx(script, m, us)

BuildPull(a) ==
    LET value == a.value
        f1 == fundZecTxPull(Nil, newMsgTx, a.mwUTXOs, a.mwIns)
        f2 == fundZecTxPull(a.contract, f1.msgTx, a.scriptUTXOs, a.scriptIns)
        withContract == a.contract # Nil
        funded == IF withContract THEN f2.msgTx ELSE f1.msgTx
        recvVals == IF withContract THEN f1.receiveValues \o f2.receiveValues
                    ELSE f1.receiveValues
        amt == SumSeq(recvVals)
        sent0 == IF withContract THEN SumSeq(f2.receiveValues) - BuilderFee ELSE 0
        out1 == IF value > 0
                THEN [funded EXCEPT !.txOut = Append(@, NewTxOut(value, "p2pkh:to"))]
                ELSE funded
        out2 == IF amt - value > BuilderFee + 600
                THEN [out1 EXCEPT !.txOut =
                        Append(@, NewTxOut(amt - value - BuilderFee, "p2pkh:me"))]
                ELSE out1
        h == hashLoop(out2, recvVals, a.mwIns, a.mwIns + a.scriptIns,
                      f1.script, a.contract, 1, <<>>)
    IN IF f1.err # "" THEN BuildFail(f1.err)
       ELSE IF withContract /\ f2.err # "" THEN BuildFail(f2.err)
       ELSE IF amt < value + BuilderFee THEN BuildFail("ErrInsufficientBalance")
       ELSE IF Len(funded.txIn) # a.mwIns + a.scriptIns THEN BuildFail("ErrUtxosSpent")
       ELSE IF h.err # "" THEN BuildFail(h.err)
       ELSE [err |-> "",
             tx |-> [sent |-> IF value > 0 THEN value ELSE sent0, msgTx |-> out2,
                     hashes |-> h.hashes, contract |-> a.contract,
                     mwIns |-> a.mwIns, recvVals |-> recvVals]]

BuildPullCall ==
    /\ bpc = "new"
    /\ \E a \in PullArgs :
          LET r == BuildPull(a)
          IN /\ bArgs' = a
             /\ bErr' = r.err
             /\ bTx' = r.tx
             /\ bpc' = IF r.err = "" THEN "built" ELSE "failed"
    /\ UNCHANGED <<bSigs, bSigErr, bBefore, bSubmit, bPublish, acctVars, peerVars, pureVars>>

PullBuilderNext ==
    \/ BuildPullCall
    \/ InjectSigsCall
    \/ SubmitCall

PullBuilderSpec == BuilderInit /\ [][PullBuilderNext]_vars

BuilderNext ==
    \/ BuildCall
    \/ InjectSigsCall
    \/ SubmitCall

BuilderSpec == BuilderInit /\ [][BuilderNext]_vars

Init == AcctInit /\ BuilderIdle /\ PeerIdle /\ PureIdle

Next ==
    \/ Call
    \/ Transfer
    \/ PreCondStep
    \/ FundStep
    \/ DebitFee
    \/ SignStep
    \/ SubmitStep
    \/ PollStep
    \/ Cancel

Spec == Init /\ [][Next]_vars

(***************************************************************************)
(* Two calls on one account.  Next to the call above, a second goroutine    *)
(* runs Transfer(to, v, sendAll = false): SendTransaction without contract, *)
(* updateTxIn, f and postCond, whose preCond adds the output.  Both calls   *)
(* ask the same client for the UTXOs of the same address.                   *)
(***************************************************************************)
\* tx.sign over the inputs from k on.
RECURSIVE signFrom(_, _, _)
signFrom(t, k, c) ==
    IF k > Len(t.txIn) THEN t ELSE signFrom(signInput(t, k, c), k + 1, c)

\* The second caller invokes Transfer; preCond adds the output.
PeerCall ==
    /\ peer.pc = "idle"
    /\ \E v \in OutputValues :
          peer' = [peer EXCEPT !.pc = "fund",
                               !.tx = [newTx EXCEPT !.txOut = <<NewTxOut(v, "p2pkh:to")>>]]
    /\ UNCHANGED <<acctVars, bldVars, pureVars>>

\* The second call funds its transaction from the list us.
PeerFundWith(us) ==
    /\ peer.pc = "fund"
    /\ LET r == fund(peer.tx, MyAddress, us)
       IN peer' = [peer EXCEPT !.tx = r.tx,
                               !.pc = IF r.err = "" THEN "sign" ELSE "failed"]
    /\ UNCHANGED <<acctVars, bldVars, pureVars>>

\* The UTXOs of us that no input of t spends.
RECURSIVE Unspent(_, _)
Unspent(us, t) ==
    IF us = <<>> THEN <<>>
    ELSE IF \E k \in 1..Len(t.txIn) :
              t.txIn[k].hash = Head(us).txHash /\ t.txIn[k].vout = Head(us).vout
         THEN Unspent(Tail(us), t)
         ELSE <<Head(us)>> \o Unspent(Tail(us), t)

PeerFundReserving == PeerFundWith(Unspent(utxos, tx))

PeerFund == PeerFundWith(utxos)

\* The fee debit and tx.sign of the second call.
PeerSign ==
    /\ peer.pc = "sign"
    /\ peer' = [peer EXCEPT
                  !.tx = signFrom([peer.tx EXCEPT !.txOut[Len(peer.tx.txOut)].value =
                                                       @ - MaxZCashFee],
                                  1, TransferCall),
                  !.pc = "loop"]
    /\ UNCHANGED <<acctVars, bldVars, pureVars>>

\* tx.submit of the second call; with postCond nil the call returns at once.
PeerSubmit ==
    /\ peer.pc = "loop"
    /\ \/ /\ Acceptable(peer.tx)
          /\ peer' = [peer EXCEPT !.published = peer.tx, !.pc = "done"]
       \/ peer' = [peer EXCEPT !.pc = "failed"]
    /\ UNCHANGED <<acctVars, bldVars, pureVars>>

\* The first call of a race is a plain one as well: no contract, no postCond.
RaceCall ==
    /\ Call
    /\ call'.contract = Nil /\ ~call'.hasPostCond
    /\ ~call'.updateTxIn /\ ~call'.sigData

RaceNext ==
    \/ RaceCall
    \/ PreCondStep
    \/ FundStep
    \/ DebitFee
    \/ SignStep
    \/ SubmitStep
    \/ PollStep
    \/ Cancel
    \/ PeerCall
    \/ PeerFund
    \/ PeerSign
    \/ PeerSubmit

RaceSpec == Init /\ [][RaceNext]_vars

\* The library as a whole: a program uses the account (over any UTXO list the
\* client serves) or the builder.
LibNext ==
    \/ /\ bpc = "new"
       /\ Next
    \/ /\ pc = "idle" /\ utxos = <<>>
       /\ BuilderNext

LibSpec == Init /\ [][LibNext]_vars

(***************************************************************************)
(* The functions without state: the key of the signature hash, the address *)
(* codec and the slave address.  Each call records its arguments and its   *)
(* result in pure; a behaviour is one call.                                *)
(***************************************************************************)
ZCashExpiryHeight == 6000000

blake2BSigHash == "ZcashSigHash"

\* the network upgrades: activation height and consensus branch id (bytes)
upgradeParams ==
    << [ActivationHeight |-> 0,      BranchID |-> <<0, 0, 0, 0>>],
       [ActivationHeight |-> 207500, BranchID |-> <<25, 27, 168, 91>>],
       [ActivationHeight |-> 280000, BranchID |-> <<187, 9, 184, 118>>] >>

\* how far around each activation height the heights of the model reach
MaxHeightDelta == 3

\* the heights sigHashKey is called with: around every activation height, and
\* the expiry height every transaction of the library carries
Heights ==
    { h \in { upgradeParams[i].ActivationHeight + d :
                i \in 1..Len(upgradeParams), d \in (0 - MaxHeightDelta)..MaxHeightDelta } :
        h >= 0 }
    \cup {ZCashExpiryHeight}

\* the loop of sigHashKey: from entry i downwards, stop at the first entry
\* whose activation height is not above the height; 0 if the loop runs out
\* (the source's i = -1)
RECURSIVE sigHashLoop(_, _)
sigHashLoop(activationHeight, i) ==
    IF i = 0 THEN 0
    ELSE IF activationHeight >= upgradeParams[i].ActivationHeight THEN i
    ELSE sigHashLoop(activationHeight, i - 1)

\* the loop run from the front: it stops at the first entry
RECURSIVE sigHashLoopAscending(_, _)
sigHashLoopAscending(activationHeight, i) ==
    IF i > Len(upgradeParams) THEN 0
    ELSE IF activationHeight >= upgradeParams[i].ActivationHeight THEN i
    ELSE sigHashLoopAscending(activationHeight, i + 1)

sigHashKeyAt(i) ==
    IF i = 0
    THEN [panic |-> TRUE, key |-> <<>>]     \* upgradeParams[-1]
    ELSE [panic |-> FALSE, key |-> <<blake2BSigHash>> \o upgradeParams[i].BranchID]

sigHashKeyFromFront(activationHeight) ==
    sigHashKeyAt(sigHashLoopAscending(activationHeight, 1))

sigHashKey(activationHeight) ==
    sigHashKeyAt(sigHashLoop(activationHeight, Len(upgradeParams)))

SigHashKeyCall ==
    /\ PureIdle
    /\ \E h \in Heights :
         pure' = [op |-> "sigHashKey", height |-> h, out |-> sigHashKey(h)]
    /\ UNCHANGED <<acctVars, bldVars, peerVars>>

(***************************************************************************)
(* The address codec.  Bytes are 0..255; a Base58 string is the sequence   *)
(* of the positions of its characters in the Base58 alphabet.              *)
(***************************************************************************)
Networks == {"mainnet", "testnet3", "regtest"}

\* the prefixes map of AddressFromHash160
prefixes ==
    [n \in Networks |->
        IF n = "mainnet"
        THEN [pubkey |-> <<28, 184>>, script |-> <<28, 189>>]
        ELSE [pubkey |-> <<29, 37>>,  script |-> <<28, 186>>]]

\* how many patterned hashes the model encodes, besides the all-FF hash
MaxHashSeed == 2

\* [20]byte values: seed 0 is the all-zero hash
Hash160s ==
    { [i \in 1..20 |-> (k * (i * 53 + 101)) % 256] : k \in 0..MaxHashSeed }
    \cup { [i \in 1..20 |-> 255] }

RECURSIVE WeightedSum(_, _, _)
WeightedSum(bytes, i, w) ==
    IF i > Len(bytes) THEN 0
    ELSE bytes[i] * (((i + w) % 251) + 1) + WeightedSum(bytes, i + 1, w)

\* addrChecksum: the first four bytes of the double SHA-256 of the input.  The
\* digest is stood for by four weighted sums of the input: like the digest it
\* is a function of every byte and of its position.
addrChecksum(input) ==
    << SumSeq(input) % 256,
       WeightedSum(input, 1, 0) % 256,
       WeightedSum(input, 1, 7) % 256,
       (WeightedSum(input, 1, 13) \div 256) % 256 >>

RECURSIVE StripZeros(_)
StripZeros(bytes) ==
    IF bytes # <<>> /\ bytes[1] = 0 THEN StripZeros(Tail(bytes)) ELSE bytes

RECURSIVE LeadingZeros(_, _)
LeadingZeros(xs, z) ==
    IF xs # <<>> /\ xs[1] = z THEN 1 + LeadingZeros(Tail(xs), z) ELSE 0

\* long division of a big-endian byte string by 58, from byte i on
RECURSIVE DivMod58(_, _, _, _)
DivMod58(bytes, i, rem, q) ==
    IF i > Len(bytes) THEN [q |-> q, r |-> rem]
    ELSE LET cur == rem * 256 + bytes[i]
         IN  DivMod58(bytes, i + 1, cur % 58, Append(q, cur \div 58))

RECURSIVE EncodeDigits(_, _)
EncodeDigits(bytes, acc) ==
    IF bytes = <<>> THEN acc
    ELSE LET dm == DivMod58(bytes, 1, 0, <<>>)
         IN  EncodeDigits(StripZeros(dm.q), <<dm.r>> \o acc)

\* base58.Encode: the digits of the number the bytes spell, after one "1"
\* (digit 0) for every leading zero byte
Base58Encode(bytes) ==
    [i \in 1..LeadingZeros(bytes, 0) |-> 0] \o EncodeDigits(StripZeros(bytes), <<>>)

\* bytes * 58 + carry on a big-endian byte string, from byte i down
RECURSIVE MulAdd58(_, _, _, _)
MulAdd58(bytes, i, carry, acc) ==
    IF i = 0 THEN (IF carry = 0 THEN acc ELSE <<carry>> \o acc)
    ELSE LET cur == bytes[i] * 58 + carry
         IN  MulAdd58(bytes, i - 1, cur \div 256, <<cur % 256>> \o acc)

RECURSIVE DecodeDigits(_, _, _)
DecodeDigits(str, i, acc) ==
    IF i > Len(str) THEN acc
    ELSE DecodeDigits(str, i + 1, MulAdd58(acc, Len(acc), str[i], <<>>))

\* base58.Decode: one zero byte for every leading "1", then the bytes of the
\* number the digits spell
Base58Decode(str) ==
    [i \in 1..LeadingZeros(str, 0) |-> 0] \o DecodeDigits(str, 1, <<>>)

encodeHash(addrHash, prefix) ==
    LET body == prefix \o addrHash
    IN  Base58Encode(body \o addrChecksum(body))

NoAddress == [err |-> "invalid address", kind |-> "", hash |-> <<>>, net |-> ""]

\* decode without the comparison of the checksum
DecodeAddressIgnoringChecksum(address, net) ==
    LET decoded == Base58Decode(address)
        prefix  == SubSeq(decoded, 1, 2)
        hash    == SubSeq(decoded, 3, Len(decoded) - 4)
    IN  IF Len(decoded) # 26 THEN NoAddress
        ELSE IF prefix = prefixes[net].pubkey
             THEN [err |-> "", kind |-> "pubkey", hash |-> hash, net |-> net]
        ELSE IF prefix = prefixes[net].script
             THEN [err |-> "", kind |-> "script", hash |-> hash, net |-> net]
        ELSE NoAddress

\* zecutil.DecodeAddress, as the spec describes decode: the inverse of encode,
\* failing on a checksum that does not match and on a prefix that is not one of
\* the network's
DecodeAddress(address, net) ==
    LET decoded == Base58Decode(address)
        body    == SubSeq(decoded, 1, Len(decoded) - 4)
        cksum   == SubSeq(decoded, Len(decoded) - 3, Len(decoded))
        prefix  == SubSeq(body, 1, 2)
        hash    == SubSeq(body, 3, Len(body))
    IN  IF Len(decoded) # 26 THEN NoAddress
        ELSE IF addrChecksum(body) # cksum THEN NoAddress
        ELSE IF prefix = prefixes[net].pubkey
             THEN [err |-> "", kind |-> "pubkey", hash |-> hash, net |-> net]
        ELSE IF prefix = prefixes[net].script
             THEN [err |-> "", kind |-> "script", hash |-> hash, net |-> net]
        ELSE NoAddress

AddressFromHash160(hash, net, isScript) ==
    IF isScript
    THEN DecodeAddress(encodeHash(hash, prefixes[net].script), net)
    ELSE DecodeAddress(encodeHash(hash, prefixes[net].pubkey), net)

AddressFromHash160Call ==
    /\ PureIdle
    /\ \E hash \in Hash160s, net \in Networks, isScript \in BOOLEAN :
         pure' = [op |-> "AddressFromHash160", hash |-> hash, net |-> net,
                  isScript |-> isScript, out |-> AddressFromHash160(hash, net, isScript)]
    /\ UNCHANGED <<acctVars, bldVars, peerVars>>

\* the byte strings DecodeAddress is handed, in Base58: the payload of an
\* address of the library, whole or with one byte changed
TamperedAt == {1, 2, 3, 22, 23, 26}

Payloads ==
    LET good == { LET body == (IF isScript THEN prefixes[net].script
                                           ELSE prefixes[net].pubkey) \o hash
                  IN  body \o addrChecksum(body) :
                    hash \in Hash160s, net \in Networks, isScript \in BOOLEAN }
    IN  good \cup { [g EXCEPT ![i] = (g[i] + d) % 256] :
                      g \in good, i \in TamperedAt, d \in {1, 255} }

DecodeAddressCall ==
    /\ PureIdle
    /\ \E payload \in Payloads, net \in Networks :
         pure' = [op |-> "DecodeAddress", payload |-> payload, net |-> net,
                  out |-> DecodeAddress(Base58Encode(payload), net)]
    /\ UNCHANGED <<acctVars, bldVars, peerVars>>

(***************************************************************************)
(* The slave address of a master public key hash and a nonce.              *)
(***************************************************************************)
\* the lengths of the byte strings SlaveScript is called with: a nonce may be
\* empty, a hash, or as long as a caller likes; mpkh is a 20-byte hash unless
\* the caller passes something else
NonceLens == {0, 32, 520, 521}

MpkhLens == {20, 521}

\* SlaveScript: nonce OP_DROP OP_DUP OP_HASH160 mpkh OP_EQUALVERIFY OP_CHECKSIG.
\* The script builder refuses a push of more than 520 bytes: it keeps the
\* error, ignores what is added after it, and Script() returns the error.
SlaveScript(mpkh, nonce) ==
    IF Len(nonce) > 520
    THEN [script |-> <<>>, err |-> "script not canonical"]
    ELSE IF Len(mpkh) > 520
    THEN [script |-> <<nonce, "OP_DROP", "OP_DUP", "OP_HASH160">>,
          err |-> "script not canonical"]
    ELSE [script |-> <<nonce, "OP_DROP", "OP_DUP", "OP_HASH160", mpkh,
                       "OP_EQUALVERIFY", "OP_CHECKSIG">>,
          err |-> ""]

\* btcutil.Hash160 of a slave script, stood for by 20 bytes that depend on
\* the two pushes
Hash160(script) ==
    [i \in 1..20 |-> (Len(script[1]) * i + Len(script[5]) + SumSeq(script[1])) % 256]

\* SlaveAddress: what it returns, as (address, error); an address of nil is
\* addrIsNil, an error of nil is ""
SlaveAddress(mpkh, nonce, net) ==
    LET s == SlaveScript(mpkh, nonce)
    IN  IF s.err # ""
        THEN [addrIsNil |-> TRUE, addr |-> NoAddress, err |-> ""]
        ELSE LET a == AddressFromHash160(Hash160(s.script), net, TRUE)
             IN  [addrIsNil |-> a.err # "", addr |-> a, err |-> a.err]

SlaveAddressCall ==
    /\ PureIdle
    /\ \E m \in MpkhLens, n \in NonceLens, net \in Networks, fill \in {0, 171} :
         LET mpkh  == [i \in 1..m |-> fill]
             nonce == [i \in 1..n |-> fill]
         IN  pure' = [op |-> "SlaveAddress", mpkh |-> mpkh, nonce |-> nonce,
                      net |-> net, script |-> SlaveScript(mpkh, nonce),
                      out |-> SlaveAddress(mpkh, nonce, net)]
    /\ UNCHANGED <<acctVars, bldVars, peerVars>>

PureNext ==
    \/ SigHashKeyCall
    \/ AddressFromHash160Call
    \/ DecodeAddressCall
    \/ SlaveAddressCall

PureSpec == BuilderInit /\ [][PureNext]_vars

(***************************************************************************)
(* Properties.                                                             *)
(***************************************************************************)
Declared == call.preCond.outs

Succeeded == pc = "done" /\ ret.err = ""

\* What the published transaction pays as fee: the amounts of its inputs less
\* the values of its outputs.
PaidFee(t) == SumSeq(t.receiveValues) - SumSeq(Values(t.txOut))

\* The call went past the pre-condition and into fund.
FundReturned ==
    /\ pc \notin {"idle", "preCond", "fund"}
    /\ ~call.sendAll
    /\ call.preCond.present => call.preCond.result

C3_PreCondFalseStopsCall ==
    (pc \notin {"idle", "preCond"} /\ call.preCond.present /\ ~call.preCond.result) =>
        /\ pc = "done"
        /\ ret = ErrRet("ErrPreConditionCheckFailed")
        /\ nFetch = 0
        /\ tx.txIn = <<>>
        /\ tx.receiveValues = <<>>
        /\ tx.txOut = Declared
        /\ nPublish = 0
        /\ published = newTx

C3_Witness ==
    pc = "done" /\ call.preCond.present /\ ~call.preCond.result /\ Declared # <<>>
    /\ utxos # <<>>

\* C4, as stated: on every successful call (sendAll or not) the returned fee is
\* MaxZCashFee and the published transaction pays exactly MaxZCashFee.
C4_FeeAlwaysTenThousand ==
    Succeeded => (ret.fee = MaxZCashFee /\ PaidFee(published) = MaxZCashFee)

\* C4, amended: on every successful call the returned fee is MaxZCashFee; without
\* sendAll the published transaction pays exactly MaxZCashFee; with sendAll it
\* pays MaxZCashFee plus the amount by which its inputs exceed the outputs that
\* preCond declared (which is negative when they fall short).
C4_FeeOfSuccessfulCall ==
    Succeeded =>
        /\ ret.fee = MaxZCashFee
        /\ published = tx
        /\ ~call.sendAll => PaidFee(published) = MaxZCashFee
        /\ call.sendAll =>
             PaidFee(published) =
                MaxZCashFee + SumSeq(published.receiveValues) - SumSeq(Values(Declared))

C4_Witness ==
    Succeeded /\ ~call.sendAll /\ Len(published.txIn) = 2 /\ Declared # <<>>

\* C6, as stated: every output of a published transaction is worth at least
\* MinOutputValue.
C6_NoDustPublished ==
    nPublish > 0 =>
        \A k \in 1..Len(published.txOut) : published.txOut[k].value >= MinOutputValue

\* C7, as stated: when preCond declares an output below MinOutputValue (sendAll
\* or not), funding fails with the dust error before any input is added, and
\* nothing is signed or published.
C7_DustOutputRejected ==
    (/\ pc \notin {"idle", "preCond", "fund"}
     /\ call.preCond.present /\ call.preCond.result
     /\ HasDustOutput(Declared)) =>
        /\ pc = "done"
        /\ ret.err = "ErrDustOutput"
        /\ tx.txIn = <<>>
        /\ nPublish = 0

\* C8, as stated: fund fails with ErrInsufficientBalance exactly when the sum of
\* the declared outputs plus MaxZCashFee exceeds the balance (the client
\* answering), reporting that sum as required and the balance as current, with
\* no input and no change output added and nothing published.
C8_InsufficientExactlyWhenShort ==
    (FundReturned /\ ret.err # "client error") =>
        /\ (ret.err = "ErrInsufficientBalance") <=>
              (SumSeq(Values(Declared)) + MaxZCashFee > Balance(utxos))
        /\ (ret.err = "ErrInsufficientBalance") =>
              /\ ret.required = SumSeq(Values(Declared)) + MaxZCashFee
              /\ ret.current = Balance(utxos)
              /\ pc = "done" /\ tx.txIn = <<>> /\ tx.txOut = Declared /\ nPublish = 0

\* C8, amended: the same, with ErrInsufficientBalance returned exactly when no
\* declared output is below MinOutputValue (the dust error comes first) and the
\* sum of the declared outputs plus MaxZCashFee exceeds the balance.
C8_InsufficientWhenShortAndNoDust ==
    (FundReturned /\ ret.err # "client error") =>
        /\ (ret.err = "ErrInsufficientBalance") <=>
              (/\ ~HasDustOutput(Declared)
               /\ SumSeq(Values(Declared)) + MaxZCashFee > Balance(utxos))
        /\ (ret.err = "ErrInsufficientBalance") =>
              /\ ret.required = SumSeq(Values(Declared)) + MaxZCashFee
              /\ ret.current = Balance(utxos)
              /\ pc = "done" /\ tx.txIn = <<>> /\ tx.txOut = Declared /\ nPublish = 0

C8_Witness ==
    /\ FundReturned /\ ret.err = "ErrInsufficientBalance"
    /\ utxos # <<>> /\ ret.required = ret.current + 300

\* C10, as stated: when the context is cancelled while the call polls postCond,
\* the call returns ErrPostConditionCheckFailed no later than the next
\* evaluation, reports no success and publishes nothing more.
C10_CancelEndsPolling ==
    cancelInPoll =>
        /\ evalsAfterCancel <= 1
        /\ ~pubAfterCancel
        /\ pc = "done" => ret.err = "ErrPostConditionCheckFailed"

\* The sum of the amounts of the UTXOs that Build added as inputs.
AmountOf(in) ==
    (CHOOSE u \in UtxoPool \cup ContractUtxoPool :
        u.txHash = in.hash /\ u.vout = in.vout).amount

BuiltFee ==
    SumSeq([k \in 1..Len(bTx.msgTx.txIn) |-> AmountOf(bTx.msgTx.txIn[k])])
    - SumSeq(Values(bTx.msgTx.txOut))

\* C5, as stated: after every successful Build the amounts of the inputs less
\* the values of the outputs is exactly BuilderFee.
C5_BuildFeeExact == bpc = "built" => BuiltFee = BuilderFee

\* C5, amended: after every successful Build that difference is BuilderFee when a
\* change output was added, and otherwise the whole remainder, which lies
\* between BuilderFee and BuilderFee + BuilderDust.
C5_BuildFeeWithinDust ==
    bpc = "built" =>
        /\ BuiltFee >= BuilderFee
        /\ BuiltFee <= BuilderFee + BuilderDust
        /\ Len(bTx.msgTx.txOut) = 2 => BuiltFee = BuilderFee
        /\ Len(bTx.msgTx.txOut) = 1 => BuiltFee = SumSeq(bTx.recvVals) - bTx.sent

C5_Witness ==
    bpc = "built" /\ Len(bTx.msgTx.txOut) = 1 /\ BuiltFee = BuilderFee + 300

\* C9, as stated: InjectSigs with a number of signatures other than the number of
\* digests returns the signature-count error and leaves every signature script
\* as it was.
C9_SigCountMismatchRejected ==
    (bSigs # -1 /\ bSigs # Len(bTx.hashes)) =>
        /\ bSigErr = "ErrSigCountMismatch"
        /\ bTx.msgTx.txIn = bBefore

\* C11: when the context is cancelled before the call reaches the publish step
\* (during preCond, funding, the fee debit or signing), PublishTransaction is
\* never invoked and the call ends with an error, an empty txid and fee 0; at the
\* head of the loop the select returns ErrPostConditionCheckFailed.
C11_CancelBeforePublishAborts ==
    [][ (cancelled /\ pubErr = "none") =>
            /\ pubErr' = "none" /\ nPublish' = 0 /\ published' = newTx
            /\ pc' = "done" => (ret'.err # "" /\ ret'.txid = "" /\ ret'.fee = 0)
            /\ pc = "loop" => (pc' = "done" /\ ret'.err = "ErrPostConditionCheckFailed") ]_vars

C11_Witness ==
    /\ cancelled /\ pubErr = "none" /\ pc = "done"
    /\ ret.err = "ErrPostConditionCheckFailed"
    /\ Len(tx.txIn) = 2 /\ signIdx > Len(tx.txIn)

\* C12: when PublishTransaction returns an error the call returns that error
\* with an empty txid and fee 0; once it has returned, postCond is not evaluated
\* and nothing is published again.
C12_PublishErrorIsFatal ==
    /\ [](pubErr = "publish error" => (pc = "done" /\ ret = ErrRet("publish error")))
    /\ [][pc = "done" =>
            (nPostEval' = nPostEval /\ nPublish' = nPublish /\ pubErr' = pubErr) ]_vars

C12_Witness ==
    /\ pubErr = "publish error" /\ pc = "done" /\ call.hasPostCond
    /\ nPostEval = 0 /\ nPublish = 0 /\ Acceptable(tx)

\* The UTXO an input spends, and the outpoints of a list of inputs.
UtxoOf(in) ==
    CHOOSE u \in UtxoPool \cup ContractUtxoPool : u.txHash = in.hash /\ u.vout = in.vout

OutPoints(ins) == [k \in 1..Len(ins) |-> <<ins[k].hash, ins[k].vout>>]

\* Every input spends a UTXO of the list whose scriptPubKey is that of the
\* list's first UTXO, and no UTXO with another scriptPubKey is an input.
MatchFirst(ins, us) ==
    /\ ins # <<>> => us # <<>>
    /\ \A k \in 1..Len(ins) :
          /\ \E j \in 1..Len(us) : <<us[j].txHash, us[j].vout>> = OutPoints(ins)[k]
          /\ UtxoOf(ins[k]).scriptPubKey = us[1].scriptPubKey
    /\ \A j \in 1..Len(us) :
          us[j].scriptPubKey # us[1].scriptPubKey =>
             \A k \in 1..Len(ins) : OutPoints(ins)[k] # <<us[j].txHash, us[j].vout>>

\* C13: funding is homogeneous.  In the orchestrator (fund and fundAll) every
\* input of the transaction spends a UTXO whose scriptPubKey equals that of the
\* first UTXO the client served, and UTXOs with another scriptPubKey are not
\* inputs; in Build the same holds for each of the two fundZecTx passes over the
\* list it is given, and the inputs of a built Tx are those of the two passes.
C13_HomogeneousFunding ==
    /\ MatchFirst(tx.txIn, utxos)
    /\ bpc # "new" =>
          LET f1 == fundZecTx(Nil, newMsgTx, bArgs.mwUTXOs)
              f2 == fundZecTx(bArgs.contract, newMsgTx, bArgs.scriptUTXOs)
          IN /\ MatchFirst(f1.msgTx.txIn, bArgs.mwUTXOs)
             /\ MatchFirst(f2.msgTx.txIn, bArgs.scriptUTXOs)
             /\ bpc = "built" =>
                   OutPoints(bTx.msgTx.txIn) =
                      OutPoints(f1.msgTx.txIn)
                      \o (IF bArgs.contract # Nil THEN OutPoints(f2.msgTx.txIn) ELSE <<>>)

C13_Witness ==
    /\ call.sendAll /\ pc = "sign"
    /\ Len(utxos) = 2 /\ utxos[1].scriptPubKey # utxos[2].scriptPubKey
    /\ Len(tx.txIn) = 1

\* C15, as stated: no two inputs of a transaction produced by fund, fundAll or
\* Build reference the same outpoint, whatever lists the client or the caller
\* supplies (with repeated entries, or with a UTXO in both lists of Build).
C15_UniqueOutpoints ==
    /\ \A j, k \in 1..Len(tx.txIn) :
          OutPoints(tx.txIn)[j] = OutPoints(tx.txIn)[k] => j = k
    /\ \A j, k \in 1..Len(bTx.msgTx.txIn) :
          OutPoints(bTx.msgTx.txIn)[j] = OutPoints(bTx.msgTx.txIn)[k] => j = k

\* C14: two concurrent calls on one account are not isolated.  Nothing reserves
\* a UTXO: whatever the other call has selected, signed or published, each call
\* funds its transaction from the whole list the client serves, so that its
\* inputs are those fund selects from that list; hence both calls may select
\* and publish the same UTXO (the witness).
C14_NoReservation ==
    /\ peer.pc \in {"sign", "loop", "done"} =>
          \E v \in OutputValues :
             OutPoints(peer.tx.txIn) =
                OutPoints(fund([newTx EXCEPT !.txOut = <<NewTxOut(v, "p2pkh:to")>>],
                               MyAddress, utxos).tx.txIn)
             /\ peer.tx.txOut[1].value = v
    /\ (pc \in {"debit", "sign", "loop", "poll"} /\ ~call.sendAll) =>
          OutPoints(tx.txIn) =
             OutPoints(fund([newTx EXCEPT !.txOut = Declared], MyAddress, utxos).tx.txIn)

C14_Witness ==
    /\ pc = "done" /\ ret.err = "" /\ peer.pc = "done" /\ Len(utxos) = 1
    /\ published.txIn # <<>> /\ peer.published.txIn # <<>>
    /\ \E j \in 1..Len(published.txIn), k \in 1..Len(peer.published.txIn) :
          OutPoints(published.txIn)[j] = OutPoints(peer.published.txIn)[k]

\* C16, as stated: Build (in either variant of the builder) rejects every value
\* below BuilderFee + BuilderDust with an error and returns no Tx, and rejects
\* no value from BuilderFee + BuilderDust on for being too small.
C16_SmallValueRejected ==
    bpc # "new" =>
        /\ bArgs.value < BuilderFee + BuilderDust =>
              (bpc = "failed" /\ bErr # "" /\ bTx = NoTx)
        /\ bArgs.value >= BuilderFee + BuilderDust => bErr # "ErrAmountTooSmall"

FundedByFund ==
    /\ ~call.sendAll
    /\ \/ pc \in {"debit", "sign", "loop", "poll"}
       \/ pc = "done" /\ ret.err \in {"", "publish error", "ErrPostConditionCheckFailed"}

MatchingUtxos(us) == SelectSeq(us, LAMBDA u : u.scriptPubKey = us[1].scriptPubKey)

\* The running call is Transfer(to, _, sendAll = TRUE).
IsTransferAll ==
    /\ pc # "idle"
    /\ call = [TransferCall EXCEPT
                 !.sendAll = TRUE,
                 !.preCond.outs = <<NewTxOut(Balance(utxos), "p2pkh:to")>>]

\* C19, as stated: with sendAll the inputs of the funded transaction are all the
\* UTXOs of the source address whose scriptPubKey matches the first one's, and
\* the transaction of Transfer with sendAll has, from the fee debit on, a single
\* output worth the sum of the spent inputs less MaxZCashFee (so that nothing is
\* left on the address).
C19_SendAllDrains ==
    /\ (call.sendAll /\ pc \in {"debit", "sign", "loop", "poll"}) =>
          OutPoints(tx.txIn) =
             [k \in 1..Len(MatchingUtxos(utxos)) |->
                <<MatchingUtxos(utxos)[k].txHash, MatchingUtxos(utxos)[k].vout>>]
    /\ (IsTransferAll /\ pc \in {"sign", "loop", "poll"}) =>
          /\ Len(tx.txOut) = 1
          /\ tx.txOut[1].value = SumSeq(tx.receiveValues) - MaxZCashFee

\* The pushes of a signature script, by kind: a signature with SIGHASH_ALL, the
\* serialized public key, then extra data, then (if withContract) the contract.
IsSigPush(p) == DOMAIN p = {"sig", "hashType"} /\ p.hashType = "SigHashAll"

WellFormedScript(ss, extra, withContract, contract) ==
    /\ Len(ss) = 2 + Len(extra) + (IF withContract THEN 1 ELSE 0)
    /\ IsSigPush(ss[1])
    /\ ss[2] = [pubKey |-> "serializedPublicKey"]
    /\ SubSeq(ss, 3, 2 + Len(extra)) = extra
    /\ withContract => ss[Len(ss)] = [data |-> contract]

\* C20: every signature script that tx.sign or InjectSigs has set consists of
\* the pushes signature||SIGHASH_ALL, serialized public key, the data f added
\* (orchestrator only), then the contract; the contract push is there exactly
\* for the inputs that spend contract UTXOs: every input of a call with a
\* contract, and in a built Tx the inputs that follow those of the master list.
C20_SignatureScriptLayout ==
    /\ \A k \in 1..Len(tx.txIn) :
          IF pc \in {"loop", "poll"} \/ (pc = "sign" /\ k < signIdx)
          THEN WellFormedScript(tx.txIn[k].signatureScript,
                                IF call.sigData THEN <<[data |-> "secret"]>> ELSE <<>>,
                                call.contract # Nil, call.contract)
          ELSE pc \in {"idle", "preCond", "fund", "debit", "sign"} =>
                  tx.txIn[k].signatureScript = <<>>
    /\ nPublish > 0 =>
          \A k \in 1..Len(published.txIn) :
             WellFormedScript(published.txIn[k].signatureScript,
                              IF call.sigData THEN <<[data |-> "secret"]>> ELSE <<>>,
                              call.contract # Nil, call.contract)
    /\ bpc = "built" =>
          LET nMaster == Len(fundZecTx(Nil, newMsgTx, bArgs.mwUTXOs).msgTx.txIn)
          IN \A i \in 1..Len(bTx.msgTx.txIn) :
                \/ bTx.msgTx.txIn[i].signatureScript = <<>>
                \/ WellFormedScript(bTx.msgTx.txIn[i].signatureScript, <<>>,
                                    i > nMaster, bTx.contract)

C20_Witness ==
    /\ Succeeded /\ call.contract # Nil /\ call.sigData
    /\ published.txIn # <<>>
    /\ Len(published.txIn[1].signatureScript) = 4

\* The entry of upgradeParams the spec names for a height: the one with the
\* largest activation height that is at most the height.
LatestUpgradeAt(h) ==
    CHOOSE i \in 1..Len(upgradeParams) :
        /\ upgradeParams[i].ActivationHeight <= h
        /\ \A j \in 1..Len(upgradeParams) :
             upgradeParams[j].ActivationHeight <= h
                => upgradeParams[j].ActivationHeight <= upgradeParams[i].ActivationHeight

\* C21: sigHashKey returns "ZcashSigHash" followed by the branch id of the
\* upgrade with the largest activation height that is at most the height, for
\* every height (the lookup never runs out of entries), and at the expiry
\* height 6000000 the branch id is BB 09 B8 76.
C21_SigHashKeySelectsLatestUpgrade ==
    pure.op = "sigHashKey" =>
        /\ ~pure.out.panic
        /\ \E i \in 1..Len(upgradeParams) :
             upgradeParams[i].ActivationHeight <= pure.height
        /\ pure.out.key
             = <<"ZcashSigHash">> \o upgradeParams[LatestUpgradeAt(pure.height)].BranchID
        /\ pure.height = 6000000 => pure.out.key = <<"ZcashSigHash", 187, 9, 184, 118>>

C21_Witness ==
    /\ pure.op = "sigHashKey"
    /\ pure.height = ZCashExpiryHeight
    /\ pure.out = [panic |-> FALSE, key |-> <<"ZcashSigHash", 187, 9, 184, 118>>]

\* C22: for every 20-byte hash, every network of mainnet, testnet3 and regtest
\* and both kinds, decoding the encoded address under the same network gives
\* an address with the same hash and kind; a string whose prefix is not one of
\* the network's or whose checksum does not match its body is rejected.
C22_AddressRoundTrip ==
    /\ pure.op = "AddressFromHash160" =>
         /\ pure.out.err = ""
         /\ pure.out.hash = pure.hash
         /\ pure.out.kind = (IF pure.isScript THEN "script" ELSE "pubkey")
    /\ pure.op = "DecodeAddress" =>
         LET body == SubSeq(pure.payload, 1, 22)
         IN  (\/ SubSeq(body, 1, 2) \notin {prefixes[pure.net].pubkey, prefixes[pure.net].script}
              \/ SubSeq(pure.payload, 23, 26) # addrChecksum(body))
                => pure.out.err # ""

C22_Witness ==
    /\ pure.op = "AddressFromHash160"
    /\ pure.net = "regtest"
    /\ pure.isScript
    /\ pure.hash = [i \in 1..20 |-> 255]
    /\ pure.out = [err |-> "", kind |-> "script", hash |-> pure.hash, net |-> "regtest"]

\* C30: SlaveAddress returns either an address and no error, or no address and
\* an error; when SlaveScript fails it does not return neither.
C30_SlaveAddressNeverNilNil ==
    pure.op = "SlaveAddress" =>
        \/ ~pure.out.addrIsNil /\ pure.out.err = ""
        \/ pure.out.addrIsNil /\ pure.out.err # ""

\* The positions a call moves through, in the order of its steps.
StepOrder ==
    { <<"idle", "preCond">>, <<"preCond", "fund">>, <<"fund", "debit">>,
      <<"debit", "sign">>, <<"sign", "sign">>, <<"sign", "loop">>,
      <<"loop", "poll">>, <<"poll", "poll">>, <<"poll", "loop">> }

AllInputsSigned(t) == \A k \in 1..Len(t.txIn) : t.txIn[k].signatureScript # <<>>

NoInputSigned(t) == \A k \in 1..Len(t.txIn) : t.txIn[k].signatureScript = <<>>

\* What has happened when a call has ended with the error of a step: nothing
\* of the steps after it.
NoLaterStep ==
    /\ ret.err = "ErrPreConditionCheckFailed" => nFetch = 0 /\ tx.txIn = <<>>
    /\ ret.err \in {"ErrPreConditionCheckFailed", "ErrDustOutput",
                    "ErrInsufficientBalance", "client error",
                    "panic: index out of range"} => NoInputSigned(tx)
    /\ ret.err \in {"ErrPreConditionCheckFailed", "ErrDustOutput",
                    "ErrInsufficientBalance", "client error",
                    "panic: index out of range", "sign error"}
          => pubErr = "none" /\ nPublish = 0
    /\ ret.err \notin {"", "ErrPostConditionCheckFailed", "publish error"} => nPostEval = 0

\* C23: within one SendTransaction call the steps come in the order preCond,
\* funding, fee debit, signing of all inputs, publish, polling; the publish is
\* invoked only when every input has a signature script, signing only after
\* the funding succeeded, funding only after preCond returned true (or is
\* nil); an error in a step ends the call and no later step is executed.
C23_StepsInOrder ==
    /\ [](/\ pubErr # "none" => AllInputsSigned(tx)
          /\ pc \in {"loop", "poll"} => AllInputsSigned(tx)
          /\ pc \in {"debit", "sign", "loop", "poll"} => nFetch > 0
          /\ nFetch > 0 => (call.preCond.present => call.preCond.result)
          /\ pc = "done" => NoLaterStep)
    /\ [][/\ pc' # pc => \/ <<pc, pc'>> \in StepOrder
                         \/ pc' = "done" /\ pc \notin {"idle", "done"}
          /\ pc = "fund" /\ pc' = "debit" => tx'.txIn # <<>> \/ call.sendAll
          /\ pubErr' # pubErr \/ nPublish' # nPublish \/ published' # published
                => pc = "loop" /\ AllInputsSigned(tx)
          /\ pc = "done" => UNCHANGED acctVars]_vars

C23_Witness ==
    /\ pc = "poll"
    /\ Len(tx.txIn) = 2
    /\ AllInputsSigned(tx)
    /\ nPublish = 1
    /\ published = tx
    /\ call.preCond.present

\* What the signature hash of any input covers of the other inputs and of the
\* outputs: the outpoints, the sequences, the outputs.
SigHashCovered(t) ==
    <<OutPoints(t.txIn), [k \in 1..Len(t.txIn) |-> t.txIn[k].sequence], t.txOut>>

\* The digest the signature of input k would be over, were it made over t.
DigestOver(t, k) ==
    SigHash(t, k, IF call.contract = Nil THEN t.scriptPublicKey ELSE call.contract,
            t.receiveValues[k])

\* C24: tx.sign signs the inputs in ascending order, and from the first
\* signature on no outpoint, no sequence and no output of the transaction
\* changes; so the signature of every input is over the transaction as it is
\* submitted, also when updateTxIn modifies the inputs of a transaction with
\* two or more inputs.
C24_SignaturesCoverSubmittedTx ==
    /\ [](pubErr # "none" =>
            \A k \in 1..Len(tx.txIn) :
                tx.txIn[k].signatureScript[1].sig = DigestOver(tx, k))
    /\ [][/\ (\E k \in 1..Len(tx.txIn) : tx.txIn[k].signatureScript # <<>>)
                => SigHashCovered(tx') = SigHashCovered(tx)
          /\ pc = "sign" /\ tx' # tx /\ pc' = "sign" =>
                /\ AllInputsSigned([tx' EXCEPT !.txIn = SubSeq(@, 1, signIdx)])
                /\ NoInputSigned([tx' EXCEPT !.txIn = SubSeq(@, signIdx + 1, Len(@))])]_vars

\* The inputs Build took from the master list: fundZecTx adds the UTXOs whose
\* scriptPubKey is that of the list's first UTXO.
MasterInputs(a) == IF a.mwUTXOs = <<>> THEN 0 ELSE Len(MatchingUtxos(a.mwUTXOs))

\* C25: after every successful Build, whatever the master and contract lists
\* (also lists of mixed scriptPubKeys), Hashes() has one digest per input, in
\* the order of the inputs; digest i is over input i with the amount of the
\* UTXO that input spends, and the sub-script is the scriptPubKey of the master
\* UTXOs for a master input and the contract for a contract input.
C25_OneDigestPerInput ==
    bpc = "built" =>
        /\ Len(bTx.hashes) = Len(bTx.msgTx.txIn)
        /\ \A i \in 1..Len(bTx.msgTx.txIn) :
              bTx.hashes[i]
                = SigHash(bTx.msgTx, i,
                          IF i <= MasterInputs(bArgs)
                          THEN UtxoOf(bTx.msgTx.txIn[i]).scriptPubKey
                          ELSE bArgs.contract,
                          AmountOf(bTx.msgTx.txIn[i]))

C25_Witness ==
    /\ bpc = "built"
    /\ bArgs.contract # Nil
    /\ Len(bArgs.mwUTXOs) = 2
    /\ Len(bArgs.scriptUTXOs) = 1
    /\ Len(bTx.hashes) = 3
    /\ bTx.hashes[1].amount # bTx.hashes[2].amount
    /\ bTx.hashes[3].subScript = bArgs.contract

\* The change rule of the claim on a funded transaction: inputs worth totalIn,
\* a target value, the outputs before the change and the outputs of the
\* transaction once the fee is accounted for.
ChangeRule(totalIn, target, declared, outs) ==
    IF totalIn - target > MaxZCashFee + MinOutputValue
    THEN /\ Len(outs) = Len(declared) + 1
         /\ outs[Len(outs)].value = totalIn - target - MaxZCashFee
    ELSE Len(outs) = Len(declared)

\* C26: funding (fund, and Build) adds a change output exactly when the inputs
\* less the target value exceed fee + dust (10600), and its value is then the
\* inputs less the target less the fee; otherwise there is no change output
\* and the remainder is left to the fee.
C26_ChangeOnlyAboveDust ==
    /\ (FundedByFund /\ pc # "debit") =>
          ChangeRule(SumSeq(tx.receiveValues), SumSeq(Values(Declared)),
                     Declared, tx.txOut)
    /\ bpc = "built" =>
          ChangeRule(SumSeq(bTx.recvVals), bTx.msgTx.txOut[1].value,
                     <<bTx.msgTx.txOut[1]>>, bTx.msgTx.txOut)

C28_SubmitOnlyWhenSigned ==
    \A k \in 1..Len(bPublish) :
        \A i \in 1..Len(bPublish[k].txIn) : bPublish[k].txIn[i].signatureScript # <<>>

\* C29: whenever SendTransaction reaches the fee debit the transaction has at
\* least one output, so the debit of the last output is within range; also
\* with sendAll when preCond is nil or adds no output.
C29_DebitHasAnOutput ==
    /\ pc = "debit" => Len(tx.txOut) >= 1
    /\ ret.err # "panic: index out of range"

====
